---- MODULE Spec2Model ----
(***************************************************************************)
(* A model of the Firebase REST client (src/firebase.cpp, with its header  *)
(* src/unnamed/part_000).                                                  *)
(*                                                                         *)
(* Text (QString, QByteArray) is a sequence of one-character strings, so   *)
(* that trimming, searching, slicing and comparing are computed as the     *)
(* code computes them.  The transport (QNetworkAccessManager and its       *)
(* replies) is the environment: it delivers bytes, completes requests and  *)
(* reports redirect targets.  A request's url field is the text the        *)
(* client hands to QNetworkRequest / QUrl.                                 *)
(***************************************************************************)
EXTENDS Integers, Sequences, FiniteSets, TLC

VARIABLES
    mHost,                  \* Firebase::mHost, the endpoint
    mFirebaseFunctionHost,  \* Firebase::mFirebaseFunctionHost
    mFirebaseToken,         \* Firebase::mFirebaseToken
    replies,                \* the QNetworkReply objects mManager has created
    last,                   \* the operation or callback that ran last, with its inputs
    emitted,                \* the signals that operation emitted, in order
    sent,                   \* the requests that operation handed to mManager, in order
    ret,                    \* the value that operation returned (getPath)
    crashed                 \* the process was aborted (Q_ASSERT on an out-of-range index)

vars == <<mHost, mFirebaseFunctionHost, mFirebaseToken, replies, last,
          emitted, sent, ret, crashed>>

----------------------------------------------------------------------------
(* Bounds of the model. *)

\* The number of requests (replies) one run creates.
MaxReplies == 3

----------------------------------------------------------------------------
(* Text helpers: the Qt operations the code calls, on character sequences. *)

\* QChar::isSpace / ascii isspace on the characters the model uses.
IsSpace(c) == c \in {" ", "\t", "\n", "\r"}

RECURSIVE DropLeadingSpace(_)
DropLeadingSpace(s) ==
    IF Len(s) > 0 /\ IsSpace(s[1]) THEN DropLeadingSpace(Tail(s)) ELSE s

RECURSIVE DropTrailingSpace(_)
DropTrailingSpace(s) ==
    IF Len(s) > 0 /\ IsSpace(s[Len(s)])
    THEN DropTrailingSpace(SubSeq(s, 1, Len(s) - 1))
    ELSE s

\* QString::trimmed, QByteArray::trimmed: whitespace removed from both ends.
Trimmed(s) == DropTrailingSpace(DropLeadingSpace(s))

\* QString::right(n), QByteArray::right(n): the last n characters (all of
\* them when n is not smaller than the length).
Right(s, n) ==
    IF n >= Len(s) THEN s
    ELSE IF n <= 0 THEN <<>>
    ELSE SubSeq(s, Len(s) - n + 1, Len(s))

\* QByteArray::indexOf(ch): 0-based position of the first ch, -1 if none.
RECURSIVE IndexFrom(_, _, _)
IndexFrom(s, ch, i) ==
    IF i > Len(s) THEN -1
    ELSE IF s[i] = ch THEN i - 1
    ELSE IndexFrom(s, ch, i + 1)

IndexOf(s, ch) == IndexFrom(s, ch, 1)

\* QString::operator[](i), i 0-based.  An index outside the string is
\* undefined behaviour: the read yields whatever lies there (oob), or the
\* range assertion of a debug build aborts the process (oob = Abort).
Abort == "ABORT"

CharAt(s, i, oob) == IF 0 <= i /\ i < Len(s) THEN s[i + 1] ELSE oob

\* What an out-of-range read can produce when compared with '/':
\* that character, some other one, or the abort.
OobOutcomes == {"/", "NUL", Abort}

----------------------------------------------------------------------------
(* Path building: src/firebase.cpp lines 140-169. *)

DotJson == <<".", "j", "s", "o", "n">>

\* const int dotJsonLength = 5;
dotJsonLength == 5

\* Firebase::forceEndChar
forceEndChar(string, endCh, oob) ==
    IF CharAt(string, Len(string) - 1, oob) # endCh
    THEN Append(string, endCh)
    ELSE string

\* forceStartChar without its test of the first character.
forceStartCharAlways(string, startCh) == <<startCh>> \o string

\* Firebase::forceStartChar
forceStartChar(string, startCh) ==
    IF Len(string) > 0 /\ string[1] # startCh
    THEN <<startCh>> \o string
    ELSE string

\* The first half of Firebase::buildPath: the endpoint with its suffix.
WithDotJson(destination) ==
    IF Len(destination) <= dotJsonLength
       \/ Right(destination, dotJsonLength) # DotJson
    THEN destination \o DotJson
    ELSE destination

\* Firebase::buildPath, on the endpoint host.
buildPathOf(host, queryString) ==
    LET destination == WithDotJson(host)
    IN  IF Len(queryString) > 0
        THEN destination \o forceStartChar(queryString, "?")
        ELSE destination

buildPath(queryString) == buildPathOf(mHost, queryString)

\* The constructor's body: mHost from hostName and dbPath.
EndpointOf(hostName, dbPath, oob) ==
    forceEndChar(Trimmed(hostName), "/", oob) \o Trimmed(dbPath)

\* Whether the constructor's forceEndChar reads outside its string.
ReadsOutOfRange(hostName) == Len(Trimmed(hostName)) = 0

----------------------------------------------------------------------------
(* QJsonDocument::fromJson (called at src/firebase.cpp line 131), as Qt's  *)
(* recursive-descent parser computes it.  The byte strings of the model    *)
(* hold no backslash, no non-ASCII byte and only integer number literals.  *)
(* A JSON value is [t |-> type, v |-> content]; an object's content is the *)
(* sequence of its members [k, v], sorted by key, one member per key.      *)

\* The characters of the model in ASCII order: Code(c) orders object keys.
Ascii ==
    <<"\t", "\n", "\r", " ", "\"", ",", "-", ".", "/",
      "0", "1", "2", "3", "4", "5", "6", "7", "8", "9", ":", "?",
      "[", "]", "a", "b", "c", "d", "e", "f", "g", "h", "i", "j", "k", "l",
      "m", "n", "o", "p", "q", "r", "s", "t", "u", "v", "w", "x", "y", "z",
      "{", "}">>

Code(c) == CHOOSE i \in 1..Len(Ascii) : Ascii[i] = c

RECURSIVE KeyLess(_, _)
KeyLess(a, b) ==
    IF Len(b) = 0 THEN FALSE
    ELSE IF Len(a) = 0 THEN TRUE
    ELSE IF a[1] = b[1] THEN KeyLess(Tail(a), Tail(b))
    ELSE Code(a[1]) < Code(b[1])

Digits == <<"0", "1", "2", "3", "4", "5", "6", "7", "8", "9">>

IsDigit(c) == \E i \in 1..Len(Digits) : Digits[i] = c

DigitValue(c) == (CHOOSE i \in 1..Len(Digits) : Digits[i] = c) - 1

JsonNull == [t |-> "null", v |-> <<>>]
JsonBool(b) == [t |-> "bool", v |-> b]
JsonNumber(n) == [t |-> "number", v |-> n]
JsonString(cs) == [t |-> "string", v |-> cs]
JsonArray(vs) == [t |-> "array", v |-> vs]
JsonObject(ms) == [t |-> "object", v |-> ms]

\* The null document: what fromJson returns when parsing fails.
NullDocument == [t |-> "invalid", v |-> <<>>]

ParseFail == [ok |-> FALSE, pos |-> 0, val |-> NullDocument]

ParseOk(p, val) == [ok |-> TRUE, pos |-> p, val |-> val]

\* ParsedObject::insert: the member replaces one with the same key, or is
\* put at its place in key order.
RECURSIVE InsertMember(_, _, _)
InsertMember(ms, k, val) ==
    IF Len(ms) = 0 THEN <<[k |-> k, v |-> val]>>
    ELSE IF ms[1].k = k THEN <<[k |-> k, v |-> val]>> \o Tail(ms)
    ELSE IF KeyLess(k, ms[1].k) THEN <<[k |-> k, v |-> val]>> \o ms
    ELSE <<ms[1]>> \o InsertMember(Tail(ms), k, val)

\* Parser::eatSpace: the position of the first character at or after p
\* that is not JSON white space (Len(s) + 1 at the end of the input).
RECURSIVE EatSpace(_, _)
EatSpace(s, p) ==
    IF p <= Len(s) /\ s[p] \in {" ", "\t", "\n", "\r"}
    THEN EatSpace(s, p + 1)
    ELSE p

\* Parser::nextToken: the structural character after the white space, with
\* the white space after it eaten too; a quote; or "" for anything else.
TokenAt(s, q) ==
    IF q > Len(s) THEN [tok |-> "", pos |-> q]
    ELSE IF s[q] \in {"[", "{", ":", ",", "]", "}"}
         THEN [tok |-> s[q], pos |-> EatSpace(s, q + 1)]
    ELSE IF s[q] = "\"" THEN [tok |-> "\"", pos |-> q + 1]
    ELSE [tok |-> "", pos |-> q + 1]

NextToken(s, p) == TokenAt(s, EatSpace(s, p))

\* Parser::parseString, p being the position after the opening quote.
RECURSIVE ClosingQuote(_, _)
ClosingQuote(s, p) ==
    IF p > Len(s) THEN 0
    ELSE IF s[p] = "\"" THEN p
    ELSE ClosingQuote(s, p + 1)

StringUpTo(s, p, q) ==
    IF q = 0 THEN ParseFail ELSE ParseOk(q + 1, SubSeq(s, p, q - 1))

ParseString(s, p) == StringUpTo(s, p, ClosingQuote(s, p))

\* Parser::parseNumber: an optional '-', then "0" or a run of digits; the
\* input must not end with the number, and the text must convert.
RECURSIVE DigitsEnd(_, _)
DigitsEnd(s, p) ==
    IF p <= Len(s) /\ IsDigit(s[p]) THEN DigitsEnd(s, p + 1) ELSE p

RECURSIVE ToNat(_, _)
ToNat(ds, acc) ==
    IF Len(ds) = 0 THEN acc ELSE ToNat(Tail(ds), 10 * acc + DigitValue(ds[1]))

\* The number whose digits are s[d..e-1], negated when neg.
NumberOf(s, neg, d, e) ==
    IF e > Len(s) \/ e = d THEN ParseFail
    ELSE IF neg THEN ParseOk(e, JsonNumber(0 - ToNat(SubSeq(s, d, e - 1), 0)))
    ELSE ParseOk(e, JsonNumber(ToNat(SubSeq(s, d, e - 1), 0)))

\* The digits from d: a single "0", or a run of digits.
UnsignedAt(s, neg, d) ==
    NumberOf(s, neg, d, IF d <= Len(s) /\ s[d] = "0" THEN d + 1 ELSE DigitsEnd(s, d))

ParseNumber(s, p) ==
    IF p <= Len(s) /\ s[p] = "-"
    THEN UnsignedAt(s, TRUE, p + 1)
    ELSE UnsignedAt(s, FALSE, p)

\* Parser::parseValue, parseMember, parseObject and parseArray.  p is the
\* position of the first unread character.  Each step of the code that
\* uses the result of a call is an operator taking that result.
RECURSIVE ParseValue(_, _)
RECURSIVE ObjectLoop(_, _, _)
RECURSIVE ArrayLoop(_, _, _)

\* The literal `word` (null, true, false) at p: the code wants one more
\* character than the word's length left after its first letter.
ParseLiteral(s, p, word, val) ==
    IF Len(s) - p < Len(word) THEN ParseFail
    ELSE IF SubSeq(s, p, p + Len(word) - 1) # word THEN ParseFail
    ELSE ParseOk(p + Len(word), val)

StringValue(r) == IF r.ok THEN ParseOk(r.pos, JsonString(r.val)) ELSE ParseFail

\* Parser::parseMember, p being the position after the key's opening quote:
\* the key, a ':', and a value that the input must still hold.
MemberOf(key, val) ==
    IF ~val.ok THEN ParseFail
    ELSE [ok |-> TRUE, pos |-> val.pos, val |-> [k |-> key.val, v |-> val.val]]

MemberAfterColon(s, key, tk) ==
    IF tk.tok # ":" \/ tk.pos > Len(s) THEN ParseFail
    ELSE MemberOf(key, ParseValue(s, tk.pos))

MemberAfterKey(s, key) ==
    IF ~key.ok THEN ParseFail
    ELSE MemberAfterColon(s, key, NextToken(s, key.pos))

ParseMember(s, p) == MemberAfterKey(s, ParseString(s, p))

\* The loop of Parser::parseObject: tk is the token read last, ms the
\* members so far.
AfterComma(s, ms, tk) ==
    IF tk.tok = "}" THEN ParseFail ELSE ObjectLoop(s, tk, ms)

AfterMemberToken(s, ms, tk) ==
    IF tk.tok = "," THEN AfterComma(s, ms, NextToken(s, tk.pos))
    ELSE IF tk.tok = "}" THEN ParseOk(tk.pos, JsonObject(ms))
    ELSE ParseFail

AfterMember(s, ms, m) ==
    IF ~m.ok THEN ParseFail
    ELSE AfterMemberToken(s, InsertMember(ms, m.val.k, m.val.v), NextToken(s, m.pos))

ObjectLoop(s, tk, ms) ==
    IF tk.tok = "\"" THEN AfterMember(s, ms, ParseMember(s, tk.pos))
    ELSE IF tk.tok = "}" THEN ParseOk(tk.pos, JsonObject(ms))
    ELSE ParseFail

ParseObject(s, p) == ObjectLoop(s, NextToken(s, p), <<>>)

\* The loop of Parser::parseArray: vs are the values so far.
AfterElementToken(s, vs, tk) ==
    IF tk.tok = "]" THEN ParseOk(tk.pos, JsonArray(vs))
    ELSE IF tk.tok # "," THEN ParseFail
    ELSE ArrayLoop(s, tk.pos, vs)

AfterElement(s, vs, val) ==
    IF ~val.ok THEN ParseFail
    ELSE AfterElementToken(s, Append(vs, val.val), NextToken(s, val.pos))

ElementAt(s, q, vs) ==
    IF q > Len(s) THEN ParseFail ELSE AfterElement(s, vs, ParseValue(s, q))

ArrayLoop(s, p, vs) == ElementAt(s, EatSpace(s, p), vs)

ArrayAt(s, q) ==
    IF q > Len(s) THEN ParseFail
    ELSE IF s[q] = "]" THEN ParseOk(NextToken(s, q).pos, JsonArray(<<>>))
    ELSE ArrayLoop(s, q, <<>>)

ParseArray(s, p) == ArrayAt(s, EatSpace(s, p))

ParseValue(s, p) ==
    CASE s[p] = "n" -> ParseLiteral(s, p, <<"n", "u", "l", "l">>, JsonNull)
      [] s[p] = "t" -> ParseLiteral(s, p, <<"t", "r", "u", "e">>, JsonBool(TRUE))
      [] s[p] = "f" -> ParseLiteral(s, p, <<"f", "a", "l", "s", "e">>, JsonBool(FALSE))
      [] s[p] = "\"" -> StringValue(ParseString(s, p + 1))
      [] s[p] = "[" -> ParseArray(s, p + 1)
      [] s[p] = "{" -> ParseObject(s, p + 1)
      [] s[p] \in {",", "}", "]"} -> ParseFail
      [] OTHER -> ParseNumber(s, p)

\* QJsonDocument::fromJson: an array or an object, with nothing but white
\* space after it; the null document otherwise.
DocumentOf(data, r) ==
    IF r.ok /\ EatSpace(data, r.pos) > Len(data) THEN r.val ELSE NullDocument

TopLevel(data, tk) ==
    IF tk.tok = "[" THEN ParseArray(data, tk.pos)
    ELSE IF tk.tok = "{" THEN ParseObject(data, tk.pos)
    ELSE ParseFail

fromJson(data) == DocumentOf(data, TopLevel(data, NextToken(data, 1)))

\* QJsonDocument::isObject
isObject(doc) == doc.t = "object"

----------------------------------------------------------------------------
(* The event stream: src/firebase.cpp lines 85-138 and 171-179. *)

\* The literals eventReadyRead compares the header line with.
HdrKeepAlive ==
    <<"e", "v", "e", "n", "t", ":", " ", "k", "e", "e", "p", "-", "a", "l", "i", "v", "e", "\n">>

HdrPut ==
    <<"e", "v", "e", "n", "t", ":", " ", "p", "u", "t", "\n">>

\* QIODevice::readLine on the bytes available: up to and including the
\* first newline, or all of them when there is none.
LineUpTo(avail, i) == IF i = -1 THEN avail ELSE SubSeq(avail, 1, i + 1)

ReadLine(avail) == LineUpTo(avail, IndexOf(avail, "\n"))

\* Firebase::trimValue
ValueAfter(line, index) ==
    IF index > 0 THEN Right(line, Len(line) - index - 1) ELSE <<>>

trimValue(line) == Trimmed(ValueAfter(line, IndexOf(line, ":")))

\* The signals of the class, as emitted.
KeepAlive == [sig |-> "eventKeepAlive", arg |-> <<>>]
Put(object) == [sig |-> "eventPut", arg |-> object]
FunctionResult(bytes) == [sig |-> "functionResponseReady", arg |-> bytes]

\* parsePut without its isObject check.
parsePutUnchecked(data) == <<Put(fromJson(trimValue(data)))>>

\* Firebase::parsePut: the signals it emits.
PutOf(replyDoc) == IF ~isObject(replyDoc) THEN <<>> ELSE <<Put(replyDoc)>>

parsePut(data) == PutOf(fromJson(trimValue(data)))

\* parseKeepAlive falling through to the put parser.
parseKeepAliveFallThrough(data) == <<KeepAlive>> \o parsePut(data)

\* Firebase::parseKeepAlive: the signals it emits.
parseKeepAlive(data) == <<KeepAlive>>

\* The dispatch comparing the header line with its white space removed.
DispatchTrimmed(event, data) ==
    IF Trimmed(event) = Trimmed(HdrKeepAlive) THEN parseKeepAlive(data)
    ELSE IF Trimmed(event) = Trimmed(HdrPut) THEN parsePut(data)
    ELSE <<>>

\* The dispatch of Firebase::eventReadyRead on the header line.
Dispatch(event, data) ==
    IF event = HdrKeepAlive THEN parseKeepAlive(data)
    ELSE IF event = HdrPut THEN parsePut(data)
    ELSE <<>>

\* Firebase::eventReadyRead on the bytes available: the signals it emits.
HandleLine(event, avail) ==
    IF Len(event) = 0 THEN <<>>
    ELSE Dispatch(event, SubSeq(avail, Len(event) + 1, Len(avail)))

ReadyReadSignals(avail) == HandleLine(ReadLine(avail), avail)

----------------------------------------------------------------------------
(* Requests and replies. *)

GET == <<"G", "E", "T">>

Request(verb, url, headers, body) ==
    [verb |-> verb, url |-> url, headers |-> headers, body |-> body]

\* open without its setRawHeader call.
StreamRequestPlain(url) == Request(GET, url, <<>>, <<>>)

\* The request Firebase::open builds.
StreamRequest(url) ==
    Request(GET, url, <<[name |-> "Accept", value |-> "text/event-stream"]>>, <<>>)

\* A QNetworkReply: which operation created it (that decides the slots
\* connected to it), its request, whether the transport has completed it,
\* whether deleteLater was called on it, and the bytes received and unread.
Reply(kind, request) ==
    [kind |-> kind, request |-> request, state |-> "open",
     deleted |-> FALSE, buf |-> <<>>]

\* A reply after its completion and deleteLater: the object is released,
\* with whatever it held unread; the record of its request is kept.
Released(reply) ==
    [reply EXCEPT !.state = "finished", !.deleted = TRUE, !.buf = <<>>]

IsOpen(i) == i \in DOMAIN replies /\ replies[i].state = "open"

\* eventFinished without the re-open.
FinishedRequestsNone(redirectUrl) == <<>>

\* eventFinished re-opening whether or not there is a redirect target.
FinishedRequestsAlways(redirectUrl) == <<StreamRequest(redirectUrl)>>

\* The requests Firebase::eventFinished issues: the re-open on a redirect.
FinishedRequests(redirectUrl) ==
    IF Len(redirectUrl) > 0 THEN <<StreamRequest(redirectUrl)>> ELSE <<>>

\* functionFinished handing the reply's bytes to the event parser.
FunctionFinishedSignalsParsed(avail) == ReadyReadSignals(avail)

\* functionFinished reading one line of the reply instead of all of it.
FunctionFinishedSignalsLine(avail) == <<FunctionResult(ReadLine(avail))>>

\* The signals Firebase::functionFinished emits on the unread bytes.
FunctionFinishedSignals(avail) == <<FunctionResult(avail)>>

\* The request Firebase::callFunction issues.
FunctionRequest(function) ==
    Request(GET, mFirebaseFunctionHost \o function, <<>>, <<>>)

----------------------------------------------------------------------------
(* QJsonDocument::toJson(QJsonDocument::Compact), called at                *)
(* src/firebase.cpp line 22: no white space, members in key order.         *)

RECURSIVE NatToDigits(_)
NatToDigits(n) ==
    IF n < 10 THEN <<Digits[n + 1]>>
    ELSE NatToDigits(n \div 10) \o <<Digits[(n % 10) + 1]>>

RECURSIVE ValueToJson(_)
RECURSIVE MembersToJson(_)
RECURSIVE ValuesToJson(_)

ValueToJson(val) ==
    CASE val.t = "null" -> <<"n", "u", "l", "l">>
      [] val.t = "bool" ->
            IF val.v THEN <<"t", "r", "u", "e">> ELSE <<"f", "a", "l", "s", "e">>
      [] val.t = "number" ->
            IF val.v < 0 THEN <<"-">> \o NatToDigits(0 - val.v) ELSE NatToDigits(val.v)
      [] val.t = "string" -> <<"\"">> \o val.v \o <<"\"">>
      [] val.t = "array" -> <<"[">> \o ValuesToJson(val.v) \o <<"]">>
      [] val.t = "object" -> <<"{">> \o MembersToJson(val.v) \o <<"}">>
      [] OTHER -> <<>>

MembersToJson(ms) ==
    IF Len(ms) = 0 THEN <<>>
    ELSE <<"\"">> \o ms[1].k \o <<"\"", ":">> \o ValueToJson(ms[1].v)
         \o (IF Len(ms) > 1 THEN <<",">> \o MembersToJson(Tail(ms)) ELSE <<>>)

ValuesToJson(vs) ==
    IF Len(vs) = 0 THEN <<>>
    ELSE ValueToJson(vs[1])
         \o (IF Len(vs) > 1 THEN <<",">> \o ValuesToJson(Tail(vs)) ELSE <<>>)

\* The empty byte array for the null document.
toJson(jsonDoc) == ValueToJson(jsonDoc)

\* QString::toUtf8 on the ASCII characters of the model: one byte each.
toUtf8(string) == [i \in 1..Len(string) |-> string[i]]

\* setValue sending every write with the default verb.
WriteRequestAlwaysPatch(jsonDoc, verb, queryString) ==
    Request(<<"P", "A", "T", "C", "H">>, buildPath(queryString),
            <<[name |-> "Content-Type",
               value |-> "application/x-www-form-urlencoded"]>>,
            toJson(jsonDoc))

\* The request Firebase::setValue issues.
WriteRequest(jsonDoc, verb, queryString) ==
    Request(toUtf8(verb), buildPath(queryString),
            <<[name |-> "Content-Type",
               value |-> "application/x-www-form-urlencoded"]>>,
            toJson(jsonDoc))

\* The request Firebase::getValue issues.
ReadRequest(queryString) == Request(GET, buildPath(queryString), <<>>, <<>>)

----------------------------------------------------------------------------
(* Construction inputs. *)

Hosts ==
    { <<"h">>, <<"h", "/">>, <<" ", "h", " ">>, <<" ", "h", "/", "\n">>,
      <<"/">>, <<"a", ".", "j", "s", "o", "n">>, <<>>, <<" ">> }

DbPaths ==
    { <<>>, <<"d">>, <<" ", "d", " ">>, <<"d", ".", "j", "s", "o", "n">>,
      <<".", "j", "s", "o", "n">>, <<"j", "s", "o", "n">>,
      <<"d", ".", "j", "s", "o", "n", "x">> }

FunctionHosts == { <<"f", "/">> }

Queries == { <<>>, <<"q">>, <<"?", "q">>, <<"?">>, <<"q", "?">> }

NoReturn == <<"void">>

\* Firebase::Firebase: the state right after construction.
Constructed(hostName, functionHost, dbPath, oob) ==
    /\ crashed = (ReadsOutOfRange(hostName) /\ oob = Abort)
    /\ mHost = IF crashed THEN <<>> ELSE EndpointOf(hostName, dbPath, oob)
    /\ mFirebaseFunctionHost = functionHost
    /\ mFirebaseToken = <<>>
    /\ replies = <<>>
    /\ last = [op |-> "Firebase", id |-> 0,
               arg |-> [hostName |-> hostName, dbPath |-> dbPath,
                        functionHost |-> functionHost]]
    /\ emitted = <<>>
    /\ sent = <<>>
    /\ ret = NoReturn

\* The out-of-range outcomes arise only when the read is out of range.
Outcome(hostName, oob) == ReadsOutOfRange(hostName) \/ oob = "NUL"

InitPath ==
    \E hostName \in Hosts, functionHost \in FunctionHosts, dbPath \in DbPaths,
       oob \in OobOutcomes :
        /\ Outcome(hostName, oob)
        /\ Constructed(hostName, functionHost, dbPath, oob)

----------------------------------------------------------------------------
(* The operations of the class. *)

Called(op, id, arg) == [op |-> op, id |-> id, arg |-> arg]

\* A redirect re-open that stores the redirect target as the endpoint.
FrameRedirected ==
    /\ mHost' = IF last'.op = "eventFinished" /\ sent' # <<>>
                THEN sent'[1].url
                ELSE mHost
    /\ UNCHANGED <<mFirebaseFunctionHost, mFirebaseToken, crashed>>

\* What every operation of the sources leaves alone.
Frame == UNCHANGED <<mHost, mFirebaseFunctionHost, mFirebaseToken, crashed>>

\* mManager creates one reply per request, in order.
Issue(kind, requests) ==
    /\ sent' = requests
    /\ replies' = replies \o [i \in 1..Len(requests) |-> Reply(kind, requests[i])]

\* Firebase::getPath
getPath(queryString) ==
    /\ ~crashed
    /\ ret' = buildPath(queryString)
    /\ last' = Called("getPath", 0, [queryString |-> queryString])
    /\ emitted' = <<>>
    /\ sent' = <<>>
    /\ UNCHANGED replies
    /\ Frame

\* Firebase::setValue
setValue(jsonDoc, verb, queryString) ==
    /\ ~crashed
    /\ Len(replies) < MaxReplies
    /\ Issue("write", <<WriteRequest(jsonDoc, verb, queryString)>>)
    /\ last' = Called("setValue", 0,
                      [jsonDoc |-> jsonDoc, verb |-> verb, queryString |-> queryString])
    /\ emitted' = <<>>
    /\ ret' = NoReturn
    /\ Frame

\* Firebase::getValue
getValue(queryString) ==
    /\ ~crashed
    /\ Len(replies) < MaxReplies
    /\ Issue("read", <<ReadRequest(queryString)>>)
    /\ last' = Called("getValue", 0, [queryString |-> queryString])
    /\ emitted' = <<>>
    /\ ret' = NoReturn
    /\ Frame

\* Firebase::listenEvents, through Firebase::open
listenEvents(queryString) ==
    /\ ~crashed
    /\ Len(replies) < MaxReplies
    /\ Issue("stream", <<StreamRequest(buildPath(queryString))>>)
    /\ last' = Called("listenEvents", 0, [queryString |-> queryString])
    /\ emitted' = <<>>
    /\ ret' = NoReturn
    /\ Frame

\* Firebase::callFunction
callFunction(function) ==
    /\ ~crashed
    /\ Len(replies) < MaxReplies
    /\ Issue("function", <<FunctionRequest(function)>>)
    /\ last' = Called("callFunction", 0, [function |-> function])
    /\ emitted' = <<>>
    /\ ret' = NoReturn
    /\ Frame

\* eventReadyRead reading the data with readLine as well: the bytes after
\* the second line stay unread.
ReadyReadUnreadAfterData(avail) ==
    LET afterHeader == SubSeq(avail, Len(ReadLine(avail)) + 1, Len(avail))
    IN  SubSeq(afterHeader, Len(ReadLine(afterHeader)) + 1, Len(afterHeader))

\* Firebase::eventReadyRead: what it leaves unread.  Nothing is read when
\* no byte is available; readAll takes the rest otherwise.
ReadyReadUnread(avail) == IF Len(ReadLine(avail)) = 0 THEN avail ELSE <<>>

\* Firebase::eventReadyRead, the slot of a stream reply's readyRead: the
\* transport has added chunk to the bytes available on reply i.
eventReadyRead(i, chunk) ==
    /\ ~crashed
    /\ IsOpen(i)
    /\ replies[i].kind = "stream"
    /\ LET avail == replies[i].buf \o chunk
       IN  /\ emitted' = ReadyReadSignals(avail)
           /\ replies' = [replies EXCEPT ![i].buf = ReadyReadUnread(avail)]
           /\ last' = Called("eventReadyRead", i, [available |-> avail])
    /\ sent' = <<>>
    /\ ret' = NoReturn
    /\ Frame

\* Firebase::eventFinished, the slot of a stream reply's finished: the
\* transport has completed reply i and reports redirectUrl (empty: none).
eventFinished(i, redirectUrl) ==
    /\ ~crashed
    /\ IsOpen(i)
    /\ replies[i].kind = "stream"
    /\ Len(replies) + Len(FinishedRequests(redirectUrl)) <= MaxReplies
    /\ sent' = FinishedRequests(redirectUrl)
    /\ replies' = [replies EXCEPT ![i] = Released(replies[i])]
                  \o [k \in 1..Len(sent') |-> Reply("stream", sent'[k])]
    /\ last' = Called("eventFinished", i, [redirectUrl |-> redirectUrl])
    /\ emitted' = <<>>
    /\ ret' = NoReturn
    /\ Frame

\* Firebase::functionFinished, called by the lambda callFunction connects to
\* the reply's finished.  No slot read the reply before, so the bytes
\* available are the whole response body.
functionFinished(i, body) ==
    /\ ~crashed
    /\ IsOpen(i)
    /\ replies[i].kind = "function"
    /\ emitted' = FunctionFinishedSignals(replies[i].buf \o body)
    /\ replies' = [replies EXCEPT ![i] = Released(replies[i])]
    /\ last' = Called("functionFinished", i, [body |-> replies[i].buf \o body])
    /\ sent' = <<>>
    /\ ret' = NoReturn
    /\ Frame

\* The finished lambda of getValue handing the reply to functionFinished,
\* as the lambda of callFunction does.
getValueFinishedSurfaced(i, body) ==
    /\ ~crashed
    /\ IsOpen(i)
    /\ replies[i].kind = "read"
    /\ replies' = [replies EXCEPT ![i] = Released(replies[i])]
    /\ last' = Called("getValueFinished", i, [body |-> body])
    /\ emitted' = FunctionFinishedSignals(body)
    /\ sent' = <<>>
    /\ ret' = NoReturn
    /\ Frame

\* The lambda getValue connects to the reply's finished: a debug line only.
\* The body stays unread in the reply, which is not released.
getValueFinished(i, body) ==
    /\ ~crashed
    /\ IsOpen(i)
    /\ replies[i].kind = "read"
    /\ replies' = [replies EXCEPT ![i].state = "finished"]
    /\ last' = Called("getValueFinished", i, [body |-> body])
    /\ emitted' = <<>>
    /\ sent' = <<>>
    /\ ret' = NoReturn
    /\ Frame

\* The transport completes a setValue request: no slot is connected to it.
setValueFinished(i, body) ==
    /\ ~crashed
    /\ IsOpen(i)
    /\ replies[i].kind = "write"
    /\ replies' = [replies EXCEPT ![i].state = "finished"]
    /\ last' = Called("setValueFinished", i, [body |-> body])
    /\ emitted' = <<>>
    /\ sent' = <<>>
    /\ ret' = NoReturn
    /\ Frame

----------------------------------------------------------------------------
(* Inputs of the operations and of the transport. *)

DataNull ==
    <<"d", "a", "t", "a", ":", " ", "n", "u", "l", "l", "\n", "\n">>

DataObject ==
    <<"d", "a", "t", "a", ":", " ", "{", "\"", "a", "\"", ":", "1", "}",
    "\n", "\n">>

DataPathObject ==
    <<"d", "a", "t", "a", ":", " ", "{", "\"", "p", "a", "t", "h", "\"",
    ":", "\"", "/", "\"", ",", "\"", "d", "a", "t", "a", "\"", ":", "{",
    "\"", "a", "\"", ":", "1", "}", "}">>

DataNotJson ==
    <<"d", "a", "t", "a", ":", " ", "n", "o", "t", "-", "j", "s", "o", "n">>

DataArray ==
    <<"d", "a", "t", "a", ":", " ", "[", "1", "]", "\n", "\n">>

DataColonFirst ==
    <<":", "{", "\"", "a", "\"", ":", "1", "}", "\n", "\n">>

DataNoColon ==
    <<"{", "}", "\n", "\n">>

DataEmptyObject ==
    <<"d", "a", "t", "a", ":", " ", "{", "}", "\n", "\n">>

HdrMystery ==
    <<"e", "v", "e", "n", "t", ":", " ", "m", "y", "s", "t", "e", "r", "y",
    "\n">>

HdrPutNoNewline ==
    <<"e", "v", "e", "n", "t", ":", " ", "p", "u", "t">>

HdrPutSpace ==
    <<"e", "v", "e", "n", "t", ":", " ", "p", "u", "t", " ", "\n">>


\* What one readiness notification finds available on a stream.
Chunks ==
    { HdrKeepAlive \o <<"\n">>,
      HdrKeepAlive \o DataNull,
      HdrKeepAlive \o DataNull \o HdrPut \o DataObject,
      HdrKeepAlive \o DataObject,
      HdrPut \o DataObject,
      HdrPut \o DataPathObject,
      HdrPut \o DataNotJson,
      HdrPut \o DataArray,
      HdrPut,
      HdrPut \o DataColonFirst,
      HdrPut \o DataNoColon,
      HdrPut \o DataEmptyObject \o HdrPut \o DataEmptyObject,
      HdrMystery \o DataObject,
      HdrPutNoNewline,
      HdrPutSpace \o DataObject,
      DataObject,
      <<>> }

\* The chunks of the specification of all operations: one of each outcome.
FewChunks ==
    { HdrKeepAlive \o DataNull,
      HdrPut \o DataObject,
      HdrPut \o DataNotJson,
      HdrMystery \o DataObject,
      <<>> }

\* Response bodies of the one-shot requests.
Bodies ==
    { <<>>, <<"a", "\n", "b">>, HdrKeepAlive \o <<"\n">> }

RedirectTargets == { <<>>, <<"r">> }

FunctionNames == { <<"f", "n">> }

PATCH == <<"P", "A", "T", "C", "H">>

\* The arguments of the setValue calls: document, verb, query.
Writes ==
    { <<JsonObject(<<[k |-> <<"a">>, v |-> JsonNumber(1)]>>), PATCH, <<>>>>,
      <<JsonArray(<<JsonNumber(1), JsonNull>>), <<"P", "U", "T">>, <<"q">>>> }

StreamQueries == { <<>>, <<"q">> }

\* The queries of the specification of all operations.
FewQueries == { <<"q">> }

StreamHosts == { <<"h">> }

StreamDbPaths == { <<"d">> }

Init ==
    \E hostName \in StreamHosts, functionHost \in FunctionHosts,
       dbPath \in StreamDbPaths, oob \in OobOutcomes :
        /\ Outcome(hostName, oob)
        /\ Constructed(hostName, functionHost, dbPath, oob)

Next ==
    \/ \E queryString \in StreamQueries : getPath(queryString)
    \/ \E w \in Writes : setValue(w[1], w[2], w[3])
    \/ \E queryString \in FewQueries : getValue(queryString)
    \/ \E queryString \in FewQueries : listenEvents(queryString)
    \/ \E function \in FunctionNames : callFunction(function)
    \/ \E i \in 1..MaxReplies, chunk \in FewChunks : eventReadyRead(i, chunk)
    \/ \E i \in 1..MaxReplies, redirectUrl \in RedirectTargets :
            eventFinished(i, redirectUrl)
    \/ \E i \in 1..MaxReplies, body \in Bodies : functionFinished(i, body)
    \/ \E i \in 1..MaxReplies, body \in Bodies : getValueFinished(i, body)
    \/ \E i \in 1..MaxReplies, body \in Bodies : setValueFinished(i, body)

\* Every operation and callback, interleaved.
Spec == Init /\ [][Next]_vars

NextStream ==
    \/ \E queryString \in StreamQueries : listenEvents(queryString)
    \/ \E i \in 1..MaxReplies, chunk \in Chunks : eventReadyRead(i, chunk)
    \/ \E i \in 1..MaxReplies, redirectUrl \in RedirectTargets :
            eventFinished(i, redirectUrl)

\* The event stream alone, over a wide set of chunks.
SpecStream == Init /\ [][NextStream]_vars

\* The transport completes every request it was given: each function
\* reply's finished signal is delivered once it can be.
TransportCompletes ==
    \A i \in 1..MaxReplies : WF_vars(\E body \in Bodies : functionFinished(i, body))

FairSpec == Spec /\ TransportCompletes

NextPath == \E queryString \in Queries : getPath(queryString)

\* The path functions alone, over a wide set of construction inputs.
SpecPath == InitPath /\ [][NextPath]_vars

----------------------------------------------------------------------------
(* Properties of the event stream. *)

IsPrefix(p, s) == Len(p) <= Len(s) /\ SubSeq(s, 1, Len(p)) = p

\* The number of signals of one kind the last operation emitted.
Count(sig) == Cardinality({k \in 1..Len(emitted) : emitted[k].sig = sig})

\* The last step was a readiness notification whose first line is header.
ReadyReadWith(header) ==
    /\ last.op = "eventReadyRead"
    /\ IsPrefix(header, last.arg.available)

\* The bytes after that first line.
DataAfter(header) ==
    SubSeq(last.arg.available, Len(header) + 1, Len(last.arg.available))

HasColon(data) == IndexOf(data, ":") >= 0

\* The payload as the specification describes it: everything after the
\* first ':', white space removed (nothing when there is no ':').
PayloadOf(data) ==
    IF HasColon(data)
    THEN Trimmed(SubSeq(data, IndexOf(data, ":") + 2, Len(data)))
    ELSE <<>>

\* C1: a readiness notification whose first line is "event: put\n" and
\* whose data, after the first ':' and trimmed, is a JSON object emits
\* exactly one Put carrying that object and no KeepAlive.
C1_PutEmitsOnePut ==
    (/\ ReadyReadWith(HdrPut)
     /\ HasColon(DataAfter(HdrPut))
     /\ isObject(fromJson(PayloadOf(DataAfter(HdrPut)))))
    => /\ Len(emitted) = 1
       /\ emitted[1].sig = "eventPut"
       /\ emitted[1].arg = fromJson(PayloadOf(DataAfter(HdrPut)))

\* The case of C1 that holds: the ':' is not the first byte of the data.
C1_PutAfterPrefix ==
    /\ ReadyReadWith(HdrPut)
    /\ last.arg.available = HdrPut \o DataPathObject
    /\ Len(emitted) = 1
    /\ emitted[1].sig = "eventPut"

\* C2: a readiness notification whose first line is exactly
\* "event: keep-alive\n" emits exactly one KeepAlive and no Put, whatever
\* bytes follow the line.
C2_KeepAliveEmitsOne ==
    ReadyReadWith(HdrKeepAlive)
    => /\ Len(emitted) = 1
       /\ Count("eventKeepAlive") = 1
       /\ Count("eventPut") = 0

C2_KeepAliveBeforePut ==
    /\ ReadyReadWith(HdrKeepAlive)
    /\ last.arg.available = HdrKeepAlive \o DataNull \o HdrPut \o DataObject
    /\ Count("eventKeepAlive") = 1

\* C3: a readiness notification whose first line is "event: put\n" and
\* whose payload is not a JSON object emits nothing, leaves the connection
\* open and issues no request.
C3_MalformedPutSilent ==
    (/\ ReadyReadWith(HdrPut)
     /\ ~isObject(fromJson(PayloadOf(DataAfter(HdrPut)))))
    => /\ emitted = <<>>
       /\ sent = <<>>
       /\ IsOpen(last.id)
       /\ ~replies[last.id].deleted

C3_NotJsonDropped ==
    /\ ReadyReadWith(HdrPut)
    /\ DataAfter(HdrPut) = DataNotJson
    /\ emitted = <<>>
    /\ IsOpen(last.id)

\* C4: a readiness notification whose first line is neither literal emits
\* nothing and leaves the connection open.
C4_UnknownHeaderSilent ==
    (/\ last.op = "eventReadyRead"
     /\ ~IsPrefix(HdrKeepAlive, last.arg.available)
     /\ ~IsPrefix(HdrPut, last.arg.available))
    => /\ emitted = <<>>
       /\ sent = <<>>
       /\ IsOpen(last.id)
       /\ ~replies[last.id].deleted

C4_MysteryDropped ==
    /\ last.op = "eventReadyRead"
    /\ last.arg.available = HdrMystery \o DataObject
    /\ emitted = <<>>
    /\ IsOpen(last.id)

\* C5: a stream completion with a redirect target releases the completed
\* reply and issues exactly one streaming GET to the target, whose reply is
\* open, and emits nothing; in every state, so for every redirect of a chain.
C5_RedirectReopens ==
    (last.op = "eventFinished" /\ Len(last.arg.redirectUrl) > 0)
    => /\ replies[last.id].state = "finished"
       /\ replies[last.id].deleted
       /\ Len(sent) = 1
       /\ sent[1].verb = GET
       /\ sent[1].url = last.arg.redirectUrl
       /\ sent[1].headers = <<[name |-> "Accept", value |-> "text/event-stream"]>>
       /\ replies[Len(replies)].kind = "stream"
       /\ replies[Len(replies)].request = sent[1]
       /\ IsOpen(Len(replies))
       /\ Len(replies) > last.id
       /\ emitted = <<>>

\* The second redirect of a chain: reply 2 was opened by a redirect (no
\* listenEvents URL lacks the .json suffix) and is redirected itself.
C5_RedirectChain ==
    /\ last.op = "eventFinished"
    /\ last.id = 2
    /\ Len(last.arg.redirectUrl) > 0
    /\ replies[1].deleted
    /\ replies[2].deleted
    /\ replies[2].request.url = <<"r">>
    /\ Len(replies) = 3
    /\ IsOpen(3)

ClosedStream(i) ==
    /\ i \in DOMAIN replies
    /\ replies[i].kind = "stream"
    /\ replies[i].state = "finished"

\* C6: a stream completion without a redirect target releases the reply,
\* issues no request and emits nothing; and a completed stream reply stays
\* as it is: no later callback runs for it, so nothing is emitted or
\* requested on its behalf.
C6_ClosedIsTerminal ==
    /\ []((last.op = "eventFinished" /\ Len(last.arg.redirectUrl) = 0)
          => /\ ClosedStream(last.id)
             /\ replies[last.id].deleted
             /\ sent = <<>>
             /\ emitted = <<>>)
    /\ [][\A i \in 1..MaxReplies :
            ClosedStream(i) => (replies'[i] = replies[i] /\ last'.id # i)]_vars

C6_ClosedThenListenAgain ==
    /\ ClosedStream(1)
    /\ replies[1].deleted
    /\ Len(replies) = 2
    /\ last.op = "eventReadyRead"
    /\ last.id = 2
    /\ Len(emitted) = 1

----------------------------------------------------------------------------
(* Properties of the path functions. *)

EndsWithDotJson(s) ==
    Len(s) >= Len(DotJson) /\ SubSeq(s, Len(s) - Len(DotJson) + 1, Len(s)) = DotJson

\* The query as the specification normalizes it.
NormalizedQuery(q) ==
    IF Len(q) = 0 THEN <<>>
    ELSE IF q[1] = "?" THEN q
    ELSE <<"?">> \o q

ExpectedEndpoint(hostName, dbPath) ==
    LET host == Trimmed(hostName)
    IN  host
        \o (IF Len(host) > 0 /\ host[Len(host)] = "/" THEN <<>> ELSE <<"/">>)
        \o Trimmed(dbPath)

\* C8: for every non-empty host, construction stores the trimmed host, one
\* '/' unless the trimmed host ends in one, and the trimmed databasePath.
C8_EndpointNormalized ==
    (last.op = "Firebase" /\ Len(last.arg.hostName) > 0)
    => /\ ~crashed
       /\ mHost = ExpectedEndpoint(last.arg.hostName, last.arg.dbPath)

\* The ordinary case of C8: the separator is added to a host without one.
C8_SeparatorAdded ==
    /\ last.op = "Firebase"
    /\ last.arg.hostName = <<" ", "h", " ">>
    /\ last.arg.dbPath = <<" ", "d", " ">>
    /\ mHost = <<"h", "/", "d">>

\* C9: buildPath appends nothing for an empty query, the query unchanged
\* when it starts with '?', and '?' followed by the query otherwise.
C9_QueryNormalized ==
    last.op = "getPath"
    => \E base \in {mHost, mHost \o DotJson} :
          ret = base \o NormalizedQuery(last.arg.queryString)

C9_QuestionMarkKept ==
    /\ last.op = "getPath"
    /\ last.arg.queryString = <<"?", "q">>
    /\ ret = mHost \o DotJson \o <<"?", "q">>

----------------------------------------------------------------------------
(* Properties of the function calls. *)

OpenFunction(i) ==
    /\ i \in DOMAIN replies
    /\ replies[i].kind = "function"
    /\ replies[i].state = "open"

\* C10: callFunction issues exactly one GET to functionHost followed by
\* the name; the completion of that request emits exactly one
\* FunctionResult carrying the whole response body, and no KeepAlive or
\* Put; no other step emits a FunctionResult; and when the transport
\* completes every request, every call is followed by its FunctionResult.
C10_FunctionResult ==
    /\ [](last.op = "callFunction"
          => /\ Len(sent) = 1
             /\ sent[1].verb = GET
             /\ sent[1].url = mFirebaseFunctionHost \o last.arg.function
             /\ OpenFunction(Len(replies))
             /\ replies[Len(replies)].request = sent[1]
             /\ emitted = <<>>)
    /\ [](last.op = "functionFinished"
          => /\ Len(emitted) = 1
             /\ emitted[1].sig = "functionResponseReady"
             /\ emitted[1].arg = last.arg.body
             /\ sent = <<>>)
    /\ [](Count("functionResponseReady") > 0 => last.op = "functionFinished")
    /\ \A i \in 1..MaxReplies :
          OpenFunction(i)
          ~> (/\ last.op = "functionFinished"
              /\ last.id = i
              /\ Count("functionResponseReady") = 1)

C10_BodyWithNewline ==
    /\ last.op = "functionFinished"
    /\ last.arg.body = <<"a", "\n", "b">>
    /\ emitted = <<FunctionResult(<<"a", "\n", "b">>)>>

----------------------------------------------------------------------------
(* Properties of the one-shot database requests. *)

FormUrlEncoded ==
    <<[name |-> "Content-Type", value |-> "application/x-www-form-urlencoded"]>>

\* C11: setValue hands exactly one request to the transport, with the given
\* verb, the URL buildPath(query), the form-urlencoded content type and the
\* compact JSON text of the document as its body, and emits nothing; the
\* completion of that request emits nothing and issues nothing.
C11_WriteIssuesOneRequest ==
    /\ last.op = "setValue"
        => /\ Len(sent) = 1
           /\ sent[1].verb = last.arg.verb
           /\ sent[1].url = buildPath(last.arg.queryString)
           /\ sent[1].headers = FormUrlEncoded
           /\ sent[1].body = toJson(last.arg.jsonDoc)
           /\ replies[Len(replies)].kind = "write"
           /\ replies[Len(replies)].request = sent[1]
           /\ emitted = <<>>
    /\ last.op = "setValueFinished"
        => /\ emitted = <<>>
           /\ sent = <<>>
           /\ replies[last.id].kind = "write"

\* A PUT of the array [1,null] with the query q.
C11_PutArrayWritten ==
    /\ last.op = "setValue"
    /\ last.arg.verb = <<"P", "U", "T">>
    /\ sent = <<Request(<<"P", "U", "T">>,
                        <<"h", "/", "d", ".", "j", "s", "o", "n", "?", "q">>,
                        FormUrlEncoded,
                        <<"[", "1", ",", "n", "u", "l", "l", "]">>)>>

\* C12: the completion of a getValue or setValue request emits
\* eventResponseReady once, carrying the data of the reply.
C12_ResponseReadyEmitted ==
    last.op \in {"getValueFinished", "setValueFinished"}
    => emitted = <<[sig |-> "eventResponseReady", arg |-> last.arg.body]>>

\* C13: getValue hands exactly one GET for buildPath(query) to the
\* transport, without any header and without a body, and emits nothing; the
\* completion of that request emits nothing and issues nothing, whatever
\* the response body; and no signal is ever emitted on behalf of a reply
\* that getValue created.
C13_ReadSurfacesNothing ==
    /\ last.op = "getValue"
        => /\ Len(sent) = 1
           /\ sent[1].verb = GET
           /\ sent[1].url = buildPath(last.arg.queryString)
           /\ sent[1].headers = <<>>
           /\ sent[1].body = <<>>
           /\ replies[Len(replies)].kind = "read"
           /\ replies[Len(replies)].request = sent[1]
           /\ emitted = <<>>
    /\ last.op = "getValueFinished"
        => /\ emitted = <<>>
           /\ sent = <<>>
           /\ replies[last.id].kind = "read"
    /\ emitted # <<>>
        => /\ last.id \in DOMAIN replies
           /\ replies[last.id].kind # "read"

\* A read completed with a body that looks like a keep-alive event.
C13_ReadOfEventBytes ==
    /\ last.op = "getValueFinished"
    /\ last.arg.body = HdrKeepAlive \o <<"\n">>
    /\ replies[last.id].request.url
           = <<"h", "/", "d", ".", "j", "s", "o", "n", "?", "q">>
    /\ emitted = <<>>

----------------------------------------------------------------------------
(* Properties of the endpoint. *)

\* C14: construction with an empty host reads no character outside the
\* host string, does not abort, and stores '/' followed by the trimmed
\* databasePath, so that buildPath("") of an empty databasePath is /.json.
C14_EmptyHostIsRoot ==
    (last.op = "Firebase" /\ Len(last.arg.hostName) = 0)
    => /\ ~ReadsOutOfRange(last.arg.hostName)
       /\ ~crashed
       /\ mHost = <<"/">> \o Trimmed(last.arg.dbPath)
       /\ (Len(last.arg.dbPath) = 0
             => buildPath(<<>>) = <<"/", ".", "j", "s", "o", "n">>)

\* The outcome of C14 the claim describes: the character read before the
\* empty string differs from '/'.
C14_RootWhenReadDiffers ==
    /\ last.op = "Firebase"
    /\ last.arg.hostName = <<>>
    /\ last.arg.dbPath = <<>>
    /\ ~crashed
    /\ mHost = <<"/">>
    /\ buildPath(<<>>) = <<"/", ".", "j", "s", "o", "n">>

\* C15: every step other than the host reset leaves the endpoint, the
\* function host and the token as they are, and with them the value of
\* buildPath for every query; so getPath returns, after any sequence of
\* operations and callbacks, the URL of the constructed endpoint.
C15_EndpointFrame ==
    /\ [][last'.op # "setHost"
            => /\ mHost' = mHost
               /\ mFirebaseFunctionHost' = mFirebaseFunctionHost
               /\ mFirebaseToken' = mFirebaseToken
               /\ \A q \in Queries : buildPath(q)' = buildPath(q)]_vars
    /\ [](last.op = "getPath"
          => ret = <<"h", "/", "d", ".", "j", "s", "o", "n">>
                   \o NormalizedQuery(last.arg.queryString))

\* getPath after a redirect re-open: reply 2 was opened for the target r.
C15_PathAfterRedirect ==
    /\ last.op = "getPath"
    /\ last.arg.queryString = <<"q">>
    /\ Len(replies) = 3
    /\ replies[1].deleted
    /\ replies[2].request.url = <<"r">>
    /\ ret = <<"h", "/", "d", ".", "j", "s", "o", "n", "?", "q">>

----------------------------------------------------------------------------
(* Properties of the notifications. *)

AcceptEventStream == <<[name |-> "Accept", value |-> "text/event-stream"]>>

\* C17: a KeepAlive or a Put is emitted only by a readiness notification
\* of a reply that listenEvents or a redirect re-open created (its request
\* carries the event-stream Accept header) and that has not completed: so
\* none before the first such request, none for the reply of a getValue,
\* setValue or callFunction request, none for a completed reply.
C17_EventsOnlyFromOpenStream ==
    (Count("eventKeepAlive") + Count("eventPut") > 0)
    => /\ last.op = "eventReadyRead"
       /\ last.id \in DOMAIN replies
       /\ replies[last.id].kind = "stream"
       /\ replies[last.id].request.headers = AcceptEventStream
       /\ replies[last.id].state = "open"
       /\ ~replies[last.id].deleted

\* A Put on the reply of a redirect re-open, after a function call was
\* answered with bytes that look like a keep-alive event.
C17_PutOnRedirectedStream ==
    /\ last.op = "eventReadyRead"
    /\ last.id = 3
    /\ replies[3].request.url = <<"r">>
    /\ replies[1].kind = "function"
    /\ replies[1].state = "finished"
    /\ replies[2].kind = "stream"
    /\ replies[2].deleted
    /\ Count("eventPut") = 1

\* C18: whenever the put parser is handed data that holds a ':', at any
\* position, the text it parses as JSON is the text after the first ':'
\* with the white space at both ends removed.
C18_PayloadAfterFirstColon ==
    (ReadyReadWith(HdrPut) /\ HasColon(DataAfter(HdrPut)))
    => trimValue(DataAfter(HdrPut)) = PayloadOf(DataAfter(HdrPut))

\* The case of C18 that holds: the first ':' follows the word data, and
\* the white space after the object is removed.
C18_DataPrefixStripped ==
    /\ ReadyReadWith(HdrPut)
    /\ DataAfter(HdrPut) = DataObject
    /\ trimValue(DataAfter(HdrPut)) = <<"{", "\"", "a", "\"", ":", "1", "}">>
    /\ emitted = <<Put(fromJson(<<"{", "\"", "a", "\"", ":", "1", "}">>))>>

\* C19: a readiness notification that finds bytes available leaves none
\* of them unread on the reply, and emits at most one signal, a KeepAlive
\* or a Put, however many events the bytes hold; one that finds no byte
\* emits nothing.
C19_OneEventPerReadiness ==
    last.op = "eventReadyRead"
    => /\ Len(emitted) <= 1
       /\ \A k \in 1..Len(emitted) :
             emitted[k].sig \in {"eventKeepAlive", "eventPut"}
       /\ (last.arg.available # <<>> => replies[last.id].buf = <<>>)
       /\ (last.arg.available = <<>> => emitted = <<>>)

\* Two put events available at once: the second header is read as data
\* of the first, the whole is not a JSON object, and nothing stays unread.
C19_TwoPutsInOneRead ==
    /\ last.op = "eventReadyRead"
    /\ last.arg.available
           = HdrPut \o DataEmptyObject \o HdrPut \o DataEmptyObject
    /\ replies[last.id].buf = <<>>
    /\ emitted = <<>>

HasAccept(request) ==
    \E k \in 1..Len(request.headers) : request.headers[k].name = "Accept"

\* C20: listenEvents issues one GET for buildPath(query) with the header
\* Accept: text/event-stream and no other; a stream completion issues one
\* such GET for the redirect target when there is one and nothing
\* otherwise; the requests of getValue, setValue and callFunction carry no
\* Accept header; so a reply's request carries the header exactly when
\* the reply is a stream.
C20_StreamRequestsAccept ==
    /\ last.op = "listenEvents"
        => sent = <<Request(GET, buildPath(last.arg.queryString),
                            AcceptEventStream, <<>>)>>
    /\ last.op = "eventFinished"
        => sent = IF last.arg.redirectUrl # <<>>
                  THEN <<Request(GET, last.arg.redirectUrl,
                                 AcceptEventStream, <<>>)>>
                  ELSE <<>>
    /\ last.op \in {"getValue", "setValue", "callFunction"}
        => /\ Len(sent) = 1
           /\ ~HasAccept(sent[1])
    /\ \A i \in DOMAIN replies :
          /\ replies[i].kind = "stream" <=> HasAccept(replies[i].request)
          /\ replies[i].kind = "stream"
                => /\ replies[i].request.verb = GET
                   /\ replies[i].request.headers = AcceptEventStream

\* A write, then a listen, then the redirect of that stream.
C20_RedirectAfterWrite ==
    /\ last.op = "eventFinished"
    /\ last.id = 2
    /\ replies[1].kind = "write"
    /\ replies[1].request.headers = FormUrlEncoded
    /\ replies[2].request
           = Request(GET, <<"h", "/", "d", ".", "j", "s", "o", "n", "?", "q">>,
                     AcceptEventStream, <<>>)
    /\ sent = <<Request(GET, <<"r">>, AcceptEventStream, <<>>)>>
    /\ replies[3].request = sent[1]

====
